---- MODULE Spec2Model ----
(***************************************************************************)
(* Model of the background-job coordinator of app.py: the single-thread    *)
(* executor, the slot app.future guarded by app.future_lock, and the       *)
(* request handlers `/` (home), `/status` (status) and `/ping` (ping)      *)
(* running on concurrent request threads.                                  *)
(*                                                                         *)
(* Init is the state right after lines 35-38 of create_app.  (As written,  *)
(* create_app registers its error handler at line 12, before `app` is      *)
(* assigned at line 24; the model describes the application with the       *)
(* handler registered on the app of line 24.)  Every step of a handler     *)
(* that reads or writes shared state (the slot, the lock, a future's       *)
(* state) is one action, so that the interleavings of the request threads  *)
(* with each other and with the worker are those of the code.  A request   *)
(* that waits for the lock has not yet taken its step.                     *)
(***************************************************************************)
EXTENDS Integers, Sequences, FiniteSets, TLC

\* Bounds of the model.
NumThreads == 2      \* request threads serving requests concurrently
MaxFutures == 3      \* futures created over a run of the model
MaxPolls == 2        \* /status payloads remembered in pollLog

\* The executor built with two workers instead of one.
max_workers_two == 1 + 1

\* ThreadPoolExecutor(max_workers=1)
max_workers == 1

Threads == 1..NumThreads
Workers == 1..max_workers

\* Python's None, for the slot and a request's local `fut`.
NoFuture == 0
\* Python's None, for a `result` field (json null).
Null == "null"

\* What model.run_model can do: return its result string (with the accuracy
\* it measured), or raise.
Results == {"Model trained successfully! Accuracy = 1.00"}
Errors == {"bad data"}
Outcomes == [kind : {"result"}, val : Results] \cup [kind : {"exception"}, val : Errors]

VARIABLES
    model,        \* app.model and hasattr(app.model, 'run_model')
    future,       \* app.future: NoFuture or the index of a future in futs
    future_lock,  \* app.future_lock: 0 when free, else the thread holding it
    futs,         \* every concurrent.futures.Future created so far
    work_queue,   \* the executor's queue of submitted, not yet started futures
    worker,       \* per worker thread: the future it is executing, or NoFuture
    req,          \* per request thread: the request it is serving
    submitted,    \* number of calls of app.executor.submit
    run_calls,    \* number of invocations of app.model.run_model
    pollLog       \* payloads of the /status requests that reported "done"
                  \* since the last step of a `/` request

vars == <<model, future, future_lock, futs, work_queue, worker, req,
          submitted, run_calls, pollLog>>

----------------------------------------------------------------------------
\* concurrent.futures.Future

PendingFuture == [state |-> "PENDING", kind |-> "none", val |-> Null]

\* Future.running()
running(f) == f.state = "RUNNING"

\* Future.done()
done(f) == f.state = "FINISHED"

\* Future.set_result / Future.set_exception
Finished(o) == [state |-> "FINISHED", kind |-> o.kind, val |-> o.val]

\* A future that is PENDING or RUNNING.
active(f) == f.state \in {"PENDING", "RUNNING"}

\* A request thread between requests.  Of a request, `was_empty` tells, until
\* _submit_model returns, whether its with block found the slot empty.
IdleReq == [op |-> "none", pc |-> "idle", fut |-> NoFuture, state |-> Null,
            out |-> Null, was_empty |-> FALSE]

Init ==
    /\ model \in BOOLEAN
    /\ future = NoFuture
    /\ future_lock = 0
    /\ futs = <<>>
    /\ work_queue = <<>>
    /\ worker = [w \in Workers |-> NoFuture]
    /\ req = [t \in Threads |-> IdleReq]
    /\ submitted = 0
    /\ run_calls = 0
    /\ pollLog = <<>>

----------------------------------------------------------------------------
\* The executor's worker thread.

\* _wrap without its `raise`: the exception is logged and lost, and the job
\* returns None.
_wrap_swallow(o) ==
    IF o.kind = "exception" THEN [kind |-> "result", val |-> Null] ELSE o

\* What the job _wrap does with the outcome of run_model: it returns the
\* result, and logs and re-raises the exception.
_wrap(o) == o

\* The worker takes the next work item, marks its future RUNNING and calls
\* _wrap, which calls run_model.
worker_take(w) ==
    /\ worker[w] = NoFuture
    /\ work_queue # <<>>
    /\ LET h == Head(work_queue) IN
        /\ futs' = [futs EXCEPT ![h].state = "RUNNING"]
        /\ worker' = [worker EXCEPT ![w] = h]
    /\ work_queue' = Tail(work_queue)
    /\ run_calls' = run_calls + 1
    /\ UNCHANGED <<model, future, future_lock, req, submitted, pollLog>>

\* An executor that stores an outcome in a future whatever its state, and
\* keeps the work item after a result: a later failure overwrites the result.
worker_finish_twice(w, o) ==
    /\ worker[w] # NoFuture
    /\ futs' = [futs EXCEPT ![worker[w]] = Finished(_wrap(o))]
    /\ worker' = [worker EXCEPT ![w] = IF o.kind = "result" THEN @ ELSE NoFuture]
    /\ UNCHANGED <<model, future, future_lock, work_queue, req, submitted,
                   run_calls, pollLog>>

\* A worker thread that dies of the exception of its job: the future gets the
\* exception, and the worker takes no further work item.
worker_finish_dies(w, o) ==
    /\ worker[w] # NoFuture
    /\ running(futs[worker[w]])
    /\ futs' = [futs EXCEPT ![worker[w]] = Finished(_wrap(o))]
    /\ worker' = [worker EXCEPT ![w] = IF o.kind = "exception" THEN @ ELSE NoFuture]
    /\ UNCHANGED <<model, future, future_lock, work_queue, req, submitted,
                   run_calls, pollLog>>

\* run_model returns or raises with outcome o; the executor stores what _wrap
\* returned or raised in the future and the worker goes on to the next item.
worker_finish(w, o) ==
    /\ worker[w] # NoFuture
    /\ running(futs[worker[w]])
    /\ futs' = [futs EXCEPT ![worker[w]] = Finished(_wrap(o))]
    /\ worker' = [worker EXCEPT ![w] = NoFuture]
    /\ UNCHANGED <<model, future, future_lock, work_queue, req, submitted,
                   run_calls, pollLog>>

----------------------------------------------------------------------------
\* _submit_model, called by home.

\* The test written with `not running()` for `done()`: a PENDING future
\* counts as finished.
must_submit_not_running == future = NoFuture \/ ~running(futs[future])

\* The test of line 51, made with the lock held.
must_submit == future = NoFuture \/ done(futs[future])

\* A request thread accepts a GET /; home calls _submit_model, which enters
\* its with block: the request proceeds once it has the lock.
home_start(t) ==
    /\ req[t].pc = "idle"
    /\ Len(futs) < MaxFutures
    /\ future_lock = 0
    /\ future_lock' = t
    /\ req' = [req EXCEPT ![t] = [IdleReq EXCEPT !.op = "home", !.pc = "h_submit"]]
    /\ pollLog' = <<>>
    /\ UNCHANGED <<model, future, futs, work_queue, worker, submitted,
                   run_calls>>

\* _submit_model submitting the job a second time when the slot was empty.
_submit_model_twice(t) ==
    /\ req[t].pc = "h_submit"
    /\ future_lock = t
    /\ IF must_submit /\ model
       THEN /\ futs' = Append(futs, PendingFuture)
            /\ work_queue' = Append(work_queue, Len(futs) + 1)
            /\ submitted' = submitted + (IF future = NoFuture THEN 2 ELSE 1)
            /\ future' = Len(futs) + 1
       ELSE /\ futs' = IF must_submit
                       THEN Append(futs, Finished([kind |-> "result",
                                                   val |-> "No model available"]))
                       ELSE futs
            /\ future' = IF must_submit THEN Len(futs) + 1 ELSE future
            /\ UNCHANGED <<work_queue, submitted>>
    /\ future_lock' = 0
    /\ req' = [req EXCEPT ![t].pc = "h_ret",
                           ![t].was_empty = (future = NoFuture)]
    /\ pollLog' = <<>>
    /\ UNCHANGED <<model, worker, run_calls>>

\* The body of the with block of _submit_model, and the release of the lock.
_submit_model(t) ==
    /\ req[t].pc = "h_submit"
    /\ future_lock = t
    /\ IF must_submit
       THEN IF model
            THEN \* app.future = app.executor.submit(_wrap)
                 /\ futs' = Append(futs, PendingFuture)
                 /\ work_queue' = Append(work_queue, Len(futs) + 1)
                 /\ submitted' = submitted + 1
            ELSE \* f.set_result('No model available'); app.future = f
                 /\ futs' = Append(futs, Finished([kind |-> "result",
                                                   val |-> "No model available"]))
                 /\ UNCHANGED <<work_queue, submitted>>
       ELSE UNCHANGED <<futs, work_queue, submitted>>
    /\ future' = IF must_submit THEN Len(futs) + 1 ELSE future
    /\ future_lock' = 0
    /\ req' = [req EXCEPT ![t].pc = "h_ret",
                           ![t].was_empty = (future = NoFuture)]
    /\ pollLog' = <<>>
    /\ UNCHANGED <<model, worker, run_calls>>

\* return app.future: the slot is read again, after the lock was released.
submit_return(t) ==
    /\ req[t].pc = "h_ret"
    /\ req' = [req EXCEPT ![t].fut = future, ![t].pc = "h_running",
                           ![t].was_empty = FALSE]
    /\ pollLog' = <<>>
    /\ UNCHANGED <<model, future, future_lock, futs, work_queue, worker,
                   submitted, run_calls>>

----------------------------------------------------------------------------
\* home

\* output = fut.result(), or f'Model error: {e}' when result() raises.
home_output(f) == IF f.kind = "exception" THEN "Model error: " \o f.val ELSE f.val

\* The request is left with its output to render: `fut` is not used again.
Render(r, o) == [r EXCEPT !.pc = "h_resp", !.fut = NoFuture, !.out = o]

\* if fut.running(): on None the call raises AttributeError, which leaves
\* home for the app's error handler.
home_running(t) ==
    /\ req[t].pc = "h_running"
    /\ req' = [req EXCEPT ![t] =
         IF req[t].fut = NoFuture
         THEN [@ EXCEPT !.pc = "h_fail"]
         ELSE IF running(futs[req[t].fut])
         THEN Render(@, "Model is running (background). Refresh to see result.")
         ELSE [@ EXCEPT !.pc = "h_done"]]
    /\ pollLog' = <<>>
    /\ UNCHANGED <<model, future, future_lock, futs, work_queue, worker,
                   submitted, run_calls>>

\* home reading fut.result() without the done test: the call blocks until the
\* future is finished.
home_done_blocks(t) ==
    /\ req[t].pc = "h_done"
    /\ done(futs[req[t].fut])
    /\ req' = [req EXCEPT ![t].pc = "h_clear",
                           ![t].out = home_output(futs[req[t].fut])]
    /\ pollLog' = <<>>
    /\ UNCHANGED <<model, future, future_lock, futs, work_queue, worker,
                   submitted, run_calls>>

\* elif fut.done(): output = the outcome ... else: output = 'Model started ...'
home_done(t) ==
    /\ req[t].pc = "h_done"
    /\ LET f == futs[req[t].fut] IN
       IF done(f)
       THEN req' = [req EXCEPT ![t].pc = "h_clear", ![t].out = home_output(f)]
       ELSE req' = [req EXCEPT ![t] =
                Render(@, "Model started (background). Refresh to see result.")]
    /\ pollLog' = <<>>
    /\ UNCHANGED <<model, future, future_lock, futs, work_queue, worker,
                   submitted, run_calls>>

\* The done branch without its clear: the finished future stays in the slot.
home_clear_skips(t) ==
    /\ req[t].pc = "h_clear"
    /\ future_lock = 0
    /\ req' = [req EXCEPT ![t] = Render(@, req[t].out)]
    /\ pollLog' = <<>>
    /\ UNCHANGED <<model, future, future_lock, futs, work_queue, worker,
                   submitted, run_calls>>

\* with app.future_lock: app.future = None
home_clear(t) ==
    /\ req[t].pc = "h_clear"
    /\ future_lock = 0
    /\ future' = NoFuture
    /\ req' = [req EXCEPT ![t] = Render(@, req[t].out)]
    /\ pollLog' = <<>>
    /\ UNCHANGED <<model, future_lock, futs, work_queue, worker, submitted,
                   run_calls>>

\* return render_template('index.html', output=output): the response is sent
\* and the thread is free for the next request.
home_respond(t) ==
    /\ req[t].pc = "h_resp"
    /\ req' = [req EXCEPT ![t] = IdleReq]
    /\ pollLog' = <<>>
    /\ UNCHANGED <<model, future, future_lock, futs, work_queue, worker,
                   submitted, run_calls>>

\* The error handler answers 500 for the exception that left home.
handle_exception(t) ==
    /\ req[t].pc = "h_fail"
    /\ req' = [req EXCEPT ![t] = IdleReq]
    /\ pollLog' = <<>>
    /\ UNCHANGED <<model, future, future_lock, futs, work_queue, worker,
                   submitted, run_calls>>

----------------------------------------------------------------------------
\* status

\* result = fut.result(), or f'error: {e}' when result() raises.
status_result(f) == IF f.kind = "exception" THEN "error: " \o f.val ELSE f.val

\* payload = {'state': state, 'result': result}
Payload(r) == [state |-> r.state, result |-> r.out]

\* The payloads remembered: the last MaxPolls of them.
Remember(log, p) ==
    IF Len(log) < MaxPolls THEN Append(log, p) ELSE Append(Tail(log), p)

\* status calling _submit_model as home does: on an empty slot a run is
\* submitted before the slot is inspected.
status_start_submits(t) ==
    /\ req[t].pc = "idle"
    /\ future_lock = 0
    /\ future_lock' = t
    /\ IF future = NoFuture /\ model /\ Len(futs) < MaxFutures
       THEN /\ futs' = Append(futs, PendingFuture)
            /\ work_queue' = Append(work_queue, Len(futs) + 1)
            /\ submitted' = submitted + 1
            /\ future' = Len(futs) + 1
            /\ req' = [req EXCEPT ![t] = [IdleReq EXCEPT !.op = "status",
                            !.pc = "s_running", !.fut = Len(futs) + 1]]
       ELSE /\ req' = [req EXCEPT ![t] =
                 IF future = NoFuture
                 THEN [IdleReq EXCEPT !.op = "status", !.pc = "s_release",
                                      !.state = "idle"]
                 ELSE [IdleReq EXCEPT !.op = "status", !.pc = "s_running",
                                      !.fut = future]]
            /\ UNCHANGED <<future, futs, work_queue, submitted>>
    /\ UNCHANGED <<model, worker, run_calls, pollLog>>

\* A request thread accepts a GET /status and enters the with block:
\* fut = app.future; if fut is None: state = 'idle'
status_start(t) ==
    /\ req[t].pc = "idle"
    /\ future_lock = 0
    /\ future_lock' = t
    /\ req' = [req EXCEPT ![t] =
         IF future = NoFuture
         THEN [IdleReq EXCEPT !.op = "status", !.pc = "s_release", !.state = "idle"]
         ELSE [IdleReq EXCEPT !.op = "status", !.pc = "s_running", !.fut = future]]
    /\ UNCHANGED <<model, future, futs, work_queue, worker, submitted,
                   run_calls, pollLog>>

\* elif fut.running(): state = 'running'
status_running(t) ==
    /\ req[t].pc = "s_running"
    /\ req' = [req EXCEPT ![t] =
         IF running(futs[req[t].fut])
         THEN [@ EXCEPT !.pc = "s_release", !.state = "running", !.out = Null]
         ELSE [@ EXCEPT !.pc = "s_done"]]
    /\ UNCHANGED <<model, future, future_lock, futs, work_queue, worker,
                   submitted, run_calls, pollLog>>

\* elif fut.done(): state = 'done' ... else: state = 'unknown'
status_done(t) ==
    /\ req[t].pc = "s_done"
    /\ LET f == futs[req[t].fut] IN
       req' = [req EXCEPT ![t] =
         IF done(f)
         THEN [@ EXCEPT !.pc = "s_release", !.state = "done", !.out = status_result(f)]
         ELSE [@ EXCEPT !.pc = "s_release", !.state = "unknown", !.out = Null]]
    /\ UNCHANGED <<model, future, future_lock, futs, work_queue, worker,
                   submitted, run_calls, pollLog>>

\* status clearing a finished future as home does.
status_clears(t) ==
    /\ req[t].pc = "s_release"
    /\ future_lock = t
    /\ future_lock' = 0
    /\ future' = IF req[t].state = "done" THEN NoFuture ELSE future
    /\ req' = [req EXCEPT ![t] = IdleReq]
    /\ pollLog' = IF req[t].state = "done"
                  THEN Remember(pollLog, Payload(req[t]))
                  ELSE pollLog
    /\ UNCHANGED <<model, futs, work_queue, worker, submitted, run_calls>>

\* The end of the with block and the response with the payload; the thread
\* is free for the next request.
status(t) ==
    /\ req[t].pc = "s_release"
    /\ future_lock = t
    /\ future_lock' = 0
    /\ req' = [req EXCEPT ![t] = IdleReq]
    /\ pollLog' = IF req[t].state = "done"
                  THEN Remember(pollLog, Payload(req[t]))
                  ELSE pollLog
    /\ UNCHANGED <<model, future, futs, work_queue, worker, submitted,
                   run_calls>>

----------------------------------------------------------------------------
\* ping

\* return Response('ok', mimetype='text/plain'): a request thread accepts a
\* GET /ping and answers it; nothing of the app is read or written.
ping(t) ==
    /\ req[t].pc = "idle"
    /\ UNCHANGED vars

----------------------------------------------------------------------------
Next ==
    \/ \E w \in Workers : worker_take(w)
    \/ \E w \in Workers, o \in Outcomes : worker_finish(w, o)
    \/ \E t \in Threads : home_start(t)
    \/ \E t \in Threads : _submit_model(t)
    \/ \E t \in Threads : submit_return(t)
    \/ \E t \in Threads : home_running(t)
    \/ \E t \in Threads : home_done(t)
    \/ \E t \in Threads : home_clear(t)
    \/ \E t \in Threads : home_respond(t)
    \/ \E t \in Threads : handle_exception(t)
    \/ \E t \in Threads : status_start(t)
    \/ \E t \in Threads : status_running(t)
    \/ \E t \in Threads : status_done(t)
    \/ \E t \in Threads : status(t)
    \/ \E t \in Threads : ping(t)

Spec == Init /\ [][Next]_vars

\* The executor's worker thread runs whenever it has something to do, and
\* every invocation of run_model ends, by returning or by raising.
FairSpec ==
    /\ Spec
    /\ WF_vars(\E w \in Workers : worker_take(w))
    /\ WF_vars(\E w \in Workers, o \in Outcomes : worker_finish(w, o))

----------------------------------------------------------------------------
\* Vocabulary of the properties.

\* The futures created so far.
Created == 1..Len(futs)

\* Request t has just taken a step of the handler of `/status`.
StatusStep(t) == req'[t] # req[t] /\ "status" \in {req[t].op, req'[t].op}

\* Request t runs the body of _submit_model in this step.
SubmitStep(t) == req[t].pc = "h_submit" /\ req'[t].pc = "h_ret"

\* A /status request that has built its payload (it still holds the lock).
Reporting(t) == req[t].op = "status" /\ req[t].pc = "s_release"

----------------------------------------------------------------------------
\* C1: at most one invocation of run_model is executing at any moment,
\* whatever the interleaving of the requests with the worker.
C1_OneRunning == Cardinality({h \in Created : running(futs[h])}) <= 1

\* A run is executing while another submitted run waits for the worker.
C1_Witness ==
    \E h1, h2 \in Created : running(futs[h1]) /\ futs[h2].state = "PENDING"

\* C2: of all the futures ever created, at most one is PENDING or RUNNING.
C2_OneActive == Cardinality({h \in Created : active(futs[h])}) <= 1

\* C3: with a Trainable configured, _submit_model, called while the slot holds
\* a completed future, starts no run and leaves that future in the slot, to be
\* returned and rendered.
C3_CompletedKept ==
    [][\A t \in Threads :
         (model /\ SubmitStep(t) /\ future # NoFuture /\ done(futs[future]))
         => (future' = future /\ futs' = futs /\ submitted' = submitted)]_vars

\* C4: _submit_model, called while the slot holds a PENDING or RUNNING future,
\* dispatches nothing and leaves the slot as it is.
C4_ActiveKept ==
    [][\A t \in Threads :
         (SubmitStep(t) /\ future # NoFuture /\ active(futs[future]))
         => (future' = future /\ futs' = futs /\ work_queue' = work_queue
             /\ submitted' = submitted)]_vars

\* Two requests have run _submit_model and only one future exists, still
\* active in the slot: one of the two calls found it there.
C4_Witness ==
    \E t1, t2 \in Threads :
        /\ t1 # t2
        /\ req[t1].pc \in {"h_ret", "h_running", "h_done"}
        /\ req[t2].pc = "h_ret"
        /\ Len(futs) = 1 /\ future = 1 /\ active(futs[1])

\* C5: at most one `/` request takes the done branch on a given future: two
\* requests that have rendered an outcome and are about to clear the slot
\* have read different futures.
C5_ConsumedOnce ==
    \A t1, t2 \in Threads :
        (t1 # t2 /\ req[t1].pc = "h_clear" /\ req[t2].pc = "h_clear")
            => req[t1].fut # req[t2].fut

\* C6: no step of a /status request changes the slot or dispatches a run.
C6_StatusFrame ==
    [][\A t \in Threads :
         StatusStep(t) => UNCHANGED <<future, futs, work_queue, submitted, run_calls>>]_vars

\* A /status request has inspected a completed future, which is still in the
\* slot.
C6_Witness ==
    \E t \in Threads :
        Reporting(t) /\ req[t].state = "done" /\ future = req[t].fut

\* C7: the state reported by /status is idle, running or done: idle for an
\* empty slot, running with a null result for a PENDING or RUNNING future,
\* done for a completed one; never unknown.
C7_StateOfStatus ==
    \A t \in Threads :
        Reporting(t) =>
            /\ req[t].state \in {"idle", "running", "done"}
            /\ req[t].state = "idle" <=> future = NoFuture
            /\ (future # NoFuture /\ active(futs[future]))
                   => (req[t].state = "running" /\ req[t].out = Null)

\* C8: a failure of run_model becomes the outcome of its future and nothing
\* else: the worker is free again, nothing is dispatched by the failure,
\* /status reports "error: <message>", `/` renders "Model error: <message>",
\* and no request is sent to the error handler because of it.
C8_FailureIsAResult ==
    /\ [][\A w \in Workers : \A o \in Outcomes :
            (o.kind = "exception" /\ worker_finish(w, o))
            => /\ futs'[worker[w]] =
                    [state |-> "FINISHED", kind |-> "exception", val |-> o.val]
               /\ worker'[w] = NoFuture
               /\ UNCHANGED <<future, work_queue, submitted, run_calls>>
               /\ Len(futs') = Len(futs)]_vars
    /\ [](\A t \in Threads :
            /\ (Reporting(t) /\ req[t].state = "done"
                    /\ futs[req[t].fut].kind = "exception")
               => req[t].out = "error: bad data"
            /\ (req[t].pc = "h_clear" /\ futs[req[t].fut].kind = "exception")
               => req[t].out = "Model error: bad data"
            /\ req[t].pc = "h_fail" => req[t].fut = NoFuture)

\* A `/` request is in its done branch with the outcome of a failed run.
C8_Witness ==
    \E t \in Threads :
        /\ req[t].pc = "h_clear"
        /\ futs[req[t].fut].kind = "exception"
        /\ req[t].out = "Model error: bad data"

\* C9: no step changes a future that is done.
C9_DoneIsFinal ==
    [][\A h \in Created : done(futs[h]) => futs'[h] = futs[h]]_vars

\* A completed future is being read by a /status request and by a `/`
\* request at once.
C9_Witness ==
    \E t1, t2 \in Threads :
        /\ Reporting(t1) /\ req[t1].state = "done"
        /\ req[t2].pc = "h_clear" /\ req[t2].fut = req[t1].fut

\* C10: the /status requests answered since the last step of a `/` request,
\* with a completed future in the slot, all carry the same payload, that of
\* this future, which is still in the slot.
C10_PollsAgree ==
    /\ \A i \in 1..Len(pollLog) : pollLog[i] = pollLog[1]
    /\ pollLog # <<>> =>
        /\ future # NoFuture
        /\ done(futs[future])
        /\ pollLog[1].state = "done"
        /\ pollLog[1].result =
             IF futs[future].kind = "exception"
             THEN "error: bad data" ELSE futs[future].val
    /\ \A t \in Threads :
        (Reporting(t) /\ req[t].state = "done" /\ pollLog # <<>>)
            => Payload(req[t]) = pollLog[1]

\* Two /status requests in a row have reported the same completed future.
C10_Witness == Len(pollLog) >= 2

\* Request t clears the slot, at the end of the done branch, in this step.
ClearStep(t) == req[t].pc = "h_clear" /\ req'[t].pc = "h_resp"

\* C11: with a Trainable configured, the clear of the done branch leaves the
\* slot empty, the slot stays empty until the next call of _submit_model, and
\* that call dispatches exactly one run: one more future, PENDING, in the slot
\* and at the end of the executor's queue; each dispatched run is invoked
\* once, when the worker takes it.
C11_ClearThenFreshRun ==
    /\ [][/\ \A t \in Threads : ClearStep(t) => future' = NoFuture
          /\ (future = NoFuture /\ \A t \in Threads : ~SubmitStep(t))
                => future' = NoFuture
          /\ \A t \in Threads :
                (model /\ SubmitStep(t) /\ future = NoFuture) =>
                    /\ submitted' = submitted + 1
                    /\ futs' = Append(futs, PendingFuture)
                    /\ work_queue' = Append(work_queue, Len(futs) + 1)
                    /\ future' = Len(futs) + 1]_vars
    /\ [](run_calls + Len(work_queue) = submitted)

\* A `/` request has rendered an outcome and cleared the slot, and another
\* has since dispatched a new run from the empty slot, which the worker has
\* started.
C11_Witness ==
    \E t1, t2 \in Threads :
        /\ req[t1].pc = "h_resp" /\ req[t1].out \in Results
        /\ req[t2].pc = "h_ret" /\ req[t2].was_empty
        /\ future = Len(futs) /\ running(futs[future]) /\ run_calls = 2

\* Request t returns from _submit_model in this step.
ReturnStep(t) == req[t].pc = "h_ret" /\ req'[t].pc = "h_running"

\* The future _submit_model makes when no Trainable is configured.
NoModelFuture ==
    [state |-> "FINISHED", kind |-> "result", val |-> "No model available"]

\* C12: with no Trainable configured, nothing is ever submitted to the
\* executor, and a call of _submit_model that finds the slot empty stores a
\* future completed with "No model available" and returns such a future.
C12_NoModel ==
    [][~model =>
         /\ submitted' = 0 /\ work_queue' = <<>>
         /\ \A t \in Threads :
              /\ (SubmitStep(t) /\ future = NoFuture) =>
                    /\ futs' = Append(futs, NoModelFuture)
                    /\ future' = Len(futs) + 1
              /\ (ReturnStep(t) /\ req[t].was_empty) =>
                    /\ req'[t].fut # NoFuture
                    /\ futs[req'[t].fut] = NoModelFuture]_vars

\* The step of the request served by thread t.
RequestStep(t) ==
    \/ _submit_model(t) \/ submit_return(t) \/ home_running(t) \/ home_done(t)
    \/ home_clear(t) \/ home_respond(t) \/ handle_exception(t)
    \/ status_running(t) \/ status_done(t) \/ status(t)

\* The places of a handler inside a with block of app.future_lock.
InWithBlock == {"h_submit", "s_running", "s_done", "s_release"}

\* C13: no request waits for a run.  The lock is held only by a request
\* inside a with block; a request that holds the lock, or needs none, can
\* take its step in the state as it is, whatever the worker does; a request
\* that needs the lock waits only for such a request.
C13_NeverWaitsForRun ==
    /\ future_lock # 0 => req[future_lock].pc \in InWithBlock
    /\ \A t \in Threads :
        /\ req[t].pc \in InWithBlock => future_lock = t
        /\ (req[t].pc # "idle" /\ (future_lock = 0 \/ req[t].pc # "h_clear"))
              => ENABLED RequestStep(t)
        /\ (req[t].pc = "idle" /\ future_lock = 0) => ENABLED status_start(t)

\* While a run is executing, one request holds the lock and another waits
\* for it to clear the slot.
C13_Witness ==
    \E t1, t2 \in Threads, h \in Created :
        /\ running(futs[h])
        /\ future_lock = t1
        /\ req[t2].pc = "h_clear"

\* C14: the clear of home never removes from the slot a future that is
\* PENDING or RUNNING, nor a future other than the one the request read.
C14_ClearsOwnFuture ==
    [][\A t \in Threads :
         (ClearStep(t) /\ future # NoFuture)
            => (future = req[t].fut /\ done(futs[future]))]_vars

\* C15: _submit_model never returns None: the value home tests with
\* fut.running() is a future.
C15_ReturnsAFuture ==
    \A t \in Threads : req[t].pc = "h_running" => req[t].fut # NoFuture

\* C16: every dispatched future, PENDING or RUNNING, in the slot or not,
\* after a failed run or not, is eventually done.
C16_DispatchedGetsDone ==
    \A h \in 1..MaxFutures :
        (h \in Created /\ active(futs[h])) ~> (h \in Created /\ done(futs[h]))

\* A run dispatched after an earlier run failed, and since removed from the
\* slot, has completed.
C16_Witness ==
    \E h1, h2 \in Created :
        /\ h1 < h2
        /\ futs[h1].kind = "exception"
        /\ done(futs[h2]) /\ futs[h2].val \in Results
        /\ future = NoFuture

\* C17: the count of dispatched runs grows only in the _submit_model step of
\* a `/` request that has entered home, by one, once per request; no step of
\* /status, /ping or the worker dispatches.  The runs dispatched are then at
\* most as many as the `/` requests that have entered _submit_model.
C17_DispatchPerRequest ==
    [][/\ submitted' \in {submitted, submitted + 1}
       /\ submitted' # submitted =>
            \E t \in Threads :
                /\ req[t].op = "home"
                /\ SubmitStep(t)
                /\ \A u \in Threads \ {t} : req'[u] = req[u]
                /\ worker' = worker]_vars

\* Two `/` requests have gone through _submit_model and one run has been
\* dispatched.
C17_Witness ==
    \E t1, t2 \in Threads :
        /\ t1 # t2
        /\ req[t1].op = "home" /\ req[t1].pc \notin {"idle", "h_submit"}
        /\ req[t2].op = "home" /\ req[t2].pc \notin {"idle", "h_submit"}
        /\ submitted = 1 /\ Len(futs) = 1
====
